---- MODULE Spec2Model ----
(***************************************************************************)
(* A model of the two icon scripts of the Lena repository:                 *)
(*   scripts/generate_icon.py  - the icon synthesizer                      *)
(*   scripts/process_icon.py   - the icon post-processor                   *)
(*                                                                         *)
(* The module holds several specifications over one set of variables.      *)
(*   Spec         both scripts' __main__ blocks, statement by statement,   *)
(*                with every statement that can raise allowed to raise     *)
(*   SpecCrop     crop_square_center and the upscale applied repeatedly    *)
(* A specification leaves the variables of the others at their initial     *)
(* values.                                                                 *)
(***************************************************************************)
EXTENDS Integers, Sequences, FiniteSets, TLC

VARIABLES
    script,     \* which script runs: "generate_icon" or "process_icon"
    pc,         \* the statement of __main__ about to execute
    source,     \* <<w, h>> of the file at SOURCE (process_icon.py)
    img,        \* process_icon.py: img
    squared,    \* process_icon.py: squared
    icon,       \* both scripts: icon
    splash,     \* both scripts: splash
    favicon,    \* both scripts: favicon
    disk,       \* the files this run has written under ASSETS_DIR, in order
    stdout,     \* the lines printed so far (their fixed text)
    cimg,       \* SpecCrop: the image the steps are applied to
    cops,       \* SpecCrop: the steps applied so far, with their boxes
    fontfile,   \* SpecFont: what is at each path of font_paths
    fpc,        \* SpecFont: the statement of lines 71-93 about to execute
    fi,         \* SpecFont: the index in font_paths of the loop variable fp
    font,       \* SpecFont: font
    fchecked,   \* SpecFont: the indices os.path.exists was called on
    ftried,     \* SpecFont: the indices ImageFont.truetype was called on
    gy,         \* SpecGradient: the loop variable y of lines 38-46
    gimg,       \* SpecGradient: the pixels of img, gimg[y][x] = <<r, g, b, a>>
    gli,        \* SpecGlow: the position of the loop of lines 56-61 in its range
    glow,       \* SpecGlow: the pixels of glow, glow[<<x, y>>] = <<r, g, b, a>>
    sfn,        \* SpecSplash: the function called
    sts,        \* SpecSplash: the side of the splash (target_size, or SIZE)
    spc,        \* SpecSplash: the statement of the function about to execute
    ssmall,     \* SpecSplash: small_icon, [side, content]
    scanvas,    \* SpecSplash: the pixels of splash
    sbox,       \* SpecSplash: the box the paste wrote, <<l, t, r, b>>
    ipc,        \* SpecIcon: the statement of create_icon about to execute
    iimg,       \* SpecIcon: the pixels of img
    imask,      \* SpecIcon: the pixels of mask
    iglow,      \* SpecIcon: the pixels of glow
    iglyph      \* SpecIcon: the shape of the letter in the font resolved

mainVars == <<script, pc, source, img, squared, icon, splash, favicon, disk, stdout>>
cropVars == <<cimg, cops>>
fontVars == <<fontfile, fpc, fi, font, fchecked, ftried>>
gradVars == <<gy, gimg>>
glowVars == <<gli, glow>>
splashVars == <<sfn, sts, spc, ssmall, scanvas, sbox>>
iconVars == <<ipc, iimg, imask, iglow, iglyph>>
vars == <<mainVars, cropVars, fontVars, gradVars, glowVars, splashVars, iconVars>>

\* the variables the main blocks, SpecCrop, SpecFont leave alone
notMain == <<cropVars, fontVars, gradVars, glowVars, splashVars, iconVars>>
notCrop == <<mainVars, fontVars, gradVars, glowVars, splashVars, iconVars>>
notFont == <<mainVars, cropVars, gradVars, glowVars, splashVars, iconVars>>
notGrad == <<mainVars, cropVars, fontVars, glowVars, splashVars, iconVars>>
notGlow == <<mainVars, cropVars, fontVars, gradVars, splashVars, iconVars>>
notSplash == <<mainVars, cropVars, fontVars, gradVars, glowVars, iconVars>>
notIcon == <<mainVars, cropVars, fontVars, gradVars, glowVars, splashVars>>

(***************************************************************************)
(* Program constants.                                                      *)
(***************************************************************************)
SIZE == 1024
TARGET_SIZE == 1024
FAVICON_SIZE == 48
SPLASH_ICON_SIZE == 400

(***************************************************************************)
(* Bounds of the model.                                                    *)
(***************************************************************************)
\* Source images have every width and height in 1..MaxDim, and the sizes
\* of ExtraDims.
MaxDim == 5
\* SpecCrop applies at most this many steps to one image.
MaxOps == 4
\* The canvas of SpecGradient holds, of every row, the pixels of
\* NumCols + 1 columns spread from the first to the last.
NumCols == 1
\* The canvas of SpecGlow holds the pixels of a grid of GlowGrid + 1 columns
\* and rows spread over the canvas, and those of GlowRay.
GlowGrid == 6
\* SpecSplash calls create_splash with every target_size in 1..MaxTarget,
\* and with 1024.
MaxTarget == 8
\* The canvas of SpecIcon holds the pixels of a grid of IconGrid + 1 columns
\* and rows spread over the canvas, and those of IconMarks.
IconGrid == 4

ExtraDims == {48, 1000, 1024, 2000}
Dims == (1..MaxDim) \cup ExtraDims

Min(a, b) == IF a <= b THEN a ELSE b
Max(a, b) == IF a >= b THEN a ELSE b

(***************************************************************************)
(* Natural numbers of any size.  TLC's integers are 32 bits wide and the   *)
(* significand of a Python float has 53, so the float arithmetic below     *)
(* works on numbers written as sequences of limbs in base 2^15, least      *)
(* significant limb first, without leading zero limbs; <<>> is zero.       *)
(***************************************************************************)
Base == 2 ^ 15

RECURSIVE BNorm(_)
BNorm(a) ==
    IF a = <<>> THEN a
    ELSE IF a[Len(a)] = 0 THEN BNorm(SubSeq(a, 1, Len(a) - 1))
    ELSE a

RECURSIVE BFromInt(_)
BFromInt(n) == IF n = 0 THEN <<>> ELSE <<n % Base>> \o BFromInt(n \div Base)

\* the value of a, which must be below 2^31
RECURSIVE BToInt(_)
BToInt(a) == IF a = <<>> THEN 0 ELSE Head(a) + Base * BToInt(Tail(a))

Rest(a) == IF a = <<>> THEN a ELSE Tail(a)
First(a) == IF a = <<>> THEN 0 ELSE Head(a)

RECURSIVE BAddC(_, _, _)
BAddC(a, b, c) ==
    IF a = <<>> /\ b = <<>> THEN (IF c = 0 THEN <<>> ELSE <<c>>)
    ELSE LET x == First(a) + First(b) + c
         IN  <<x % Base>> \o BAddC(Rest(a), Rest(b), x \div Base)

BAdd(a, b) == BAddC(a, b, 0)

\* a - b for a >= b
RECURSIVE BSubC(_, _, _)
BSubC(a, b, c) ==
    IF a = <<>> THEN <<>>
    ELSE LET x == Head(a) - First(b) - c
         IN  IF x < 0 THEN <<x + Base>> \o BSubC(Tail(a), Rest(b), 1)
             ELSE <<x>> \o BSubC(Tail(a), Rest(b), 0)

BSub(a, b) == BNorm(BSubC(a, b, 0))

\* -1, 0 or 1 as a < b, a = b or a > b
RECURSIVE BCmpAt(_, _, _)
BCmpAt(a, b, i) ==
    IF i = 0 THEN 0
    ELSE IF a[i] < b[i] THEN -1
    ELSE IF a[i] > b[i] THEN 1
    ELSE BCmpAt(a, b, i - 1)

BCmp(a, b) ==
    IF Len(a) < Len(b) THEN -1
    ELSE IF Len(a) > Len(b) THEN 1
    ELSE BCmpAt(a, b, Len(a))

\* a * c + k for 0 <= c, k < Base
RECURSIVE BMulSmallC(_, _, _)
BMulSmallC(a, c, k) ==
    IF a = <<>> THEN (IF k = 0 THEN <<>> ELSE <<k>>)
    ELSE LET x == Head(a) * c + k
         IN  <<x % Base>> \o BMulSmallC(Tail(a), c, x \div Base)

BMulSmall(a, c) == BNorm(BMulSmallC(a, c, 0))

RECURSIVE BMul(_, _)
BMul(a, b) ==
    IF a = <<>> \/ b = <<>> THEN <<>>
    ELSE BAdd(BMulSmall(a, Head(b)),
              LET r == BMul(a, Tail(b)) IN IF r = <<>> THEN r ELSE <<0>> \o r)

RECURSIVE BitLenSmall(_)
BitLenSmall(n) == IF n = 0 THEN 0 ELSE 1 + BitLenSmall(n \div 2)

\* the bits of one limb
LimbBits == BitLenSmall(Base) - 1

Zeros(n) == [i \in 1..n |-> 0]

\* a * 2^k
BShl(a, k) ==
    IF a = <<>> THEN a
    ELSE Zeros(k \div LimbBits) \o BMulSmall(a, 2 ^ (k % LimbBits))

\* floor(a / c) for 0 < c < Base: the limbs from the top, r the remainder
\* carried down
RECURSIVE BDivSmallAt(_, _, _, _)
BDivSmallAt(a, c, i, r) ==
    IF i = 0 THEN <<>>
    ELSE LET x == r * Base + a[i]
         IN  BDivSmallAt(a, c, i - 1, x % c) \o <<x \div c>>

BDivSmall(a, c) == BNorm(BDivSmallAt(a, c, Len(a), 0))

\* floor(a / 2^k)
BShr(a, k) ==
    IF k \div LimbBits >= Len(a) THEN <<>>
    ELSE BDivSmall(SubSeq(a, k \div LimbBits + 1, Len(a)), 2 ^ (k % LimbBits))

\* the number of bits of a: 0 for zero
BBitLen(a) ==
    IF a = <<>> THEN 0
    ELSE LimbBits * (Len(a) - 1) + BitLenSmall(a[Len(a)])

BIsOdd(a) == a # <<>> /\ a[1] % 2 = 1

\* One step of the long division by d: from <<q, r>> with r < d, the
\* remainder doubled gives one more bit of the quotient.
BDivStep(qr, d) ==
    LET r2 == BMulSmall(qr[2], 2)
        ge == BCmp(r2, d) >= 0
    IN  <<BMulSmallC(qr[1], 2, IF ge THEN 1 ELSE 0),
          IF ge THEN BSub(r2, d) ELSE r2>>

\* k >= 1 steps from qr.  The steps are split in halves so that the depth
\* of the evaluation grows with log k.
RECURSIVE BDivSteps(_, _, _)
BDivSteps(qr, d, k) ==
    IF k = 1 THEN BDivStep(qr, d)
    ELSE LET mid == BDivSteps(qr, d, k \div 2)
         IN  IF Len(mid[1]) + Len(mid[2]) >= 0
             THEN BDivSteps(mid, d, k - k \div 2)
             ELSE mid

\* <<floor(r * 2^k / d), the remainder>> for r < d and k >= 1
BDivBits(r, d, k) == BDivSteps(<<<<>>, r>>, d, k)

(***************************************************************************)
(* Python floats: IEEE 754 binary64, every operation rounded to nearest,   *)
(* ties to even.  A float is [s, m, e] with the value s * m * 2^e, s the   *)
(* sign (1 or -1) and m a natural number of at most 53 bits (or 2^53).     *)
(* The numbers of the scripts stay far from the subnormal and the overflow *)
(* range, which are not modelled.                                          *)
(***************************************************************************)
Precision == 53

FZero == [s |-> 1, m |-> <<>>, e |-> 0]

\* The float nearest to s * (m + f) * 2^e, where 0 <= f < 1 and sticky
\* tells whether f > 0.
FRound(s, m, e, sticky) ==
    LET g == BBitLen(m) - Precision
    IN  IF g <= 0
        THEN [s |-> s, m |-> m, e |-> e]    \* callers keep f = 0 here
        ELSE LET kept == BShr(m, g)
                 low  == BSub(m, BShl(kept, g))
                 half == BShl(<<1>>, g - 1)
                 c    == BCmp(low, half)
                 up   == c > 0 \/ (c = 0 /\ (sticky \/ BIsOdd(kept)))
             IN  [s |-> s,
                  m |-> IF up THEN BAdd(kept, <<1>>) ELSE kept,
                  e |-> e + g]

\* float(n) for an int n of at most 31 bits
FFromInt(n) ==
    [s |-> IF n < 0 THEN -1 ELSE 1,
     m |-> BFromInt(IF n < 0 THEN -n ELSE n),
     e |-> 0]

\* a / b, for b # 0
FDiv(a, b) ==
    IF a.m = <<>> THEN FZero
    ELSE LET j  == Max(0, BBitLen(a.m) - BBitLen(b.m) + 1)
             d  == BShl(b.m, j)                   \* a.m < d
             k  == Precision + 2 + BBitLen(d) - BBitLen(a.m)
             qr == BDivBits(a.m, d, k)            \* a.m * 2^k / d
         IN  FRound(a.s * b.s, qr[1], a.e - b.e + j - k, qr[2] # <<>>)

\* a * b
FMul(a, b) ==
    IF a.m = <<>> \/ b.m = <<>> THEN FZero
    ELSE FRound(a.s * b.s, BMul(a.m, b.m), a.e + b.e, FALSE)

\* a + b
FAdd(a, b) ==
    LET e  == Min(a.e, b.e)
        x  == BShl(a.m, a.e - e)
        y  == BShl(b.m, b.e - e)
        c  == BCmp(x, y)
    IN  IF a.s = b.s THEN FRound(a.s, BAdd(x, y), e, FALSE)
        ELSE IF c = 0 THEN FZero
        ELSE IF c > 0 THEN FRound(a.s, BSub(x, y), e, FALSE)
        ELSE FRound(b.s, BSub(y, x), e, FALSE)

FNeg(a) == IF a.m = <<>> THEN a ELSE [a EXCEPT !.s = -a.s]

\* a - b
FSub(a, b) == FAdd(a, FNeg(b))

\* a < b: the sign of the exact difference
FLess(a, b) == LET d == FSub(a, b) IN d.m # <<>> /\ d.s = -1

\* int(a): a truncated toward zero; the result must fit 31 bits
FInt(a) ==
    IF a.e >= 0 THEN a.s * BToInt(BShl(a.m, a.e))
    ELSE a.s * BToInt(BShr(a.m, -a.e))

\* The float a decimal literal n/10 denotes: the float nearest to it.
FTenths(n) == FDiv(FFromInt(n), FFromInt(10))

(***************************************************************************)
(* Images.  An image object is its size and the history of the operations  *)
(* that produced its pixels: two images with the same history have the     *)
(* same content.  An operation is [op, args, from]; from is the history of *)
(* a second image the operation read (the image pasted), else <<>>.        *)
(***************************************************************************)
NoImage == [size |-> <<0, 0>>, hist |-> <<>>]

Op(name, args) == [op |-> name, args |-> args, from |-> <<>>]

\* Image.open(path).convert('RGBA') of a file of size wh
OpenRGBA(wh) ==
    [size |-> wh, hist |-> <<Op("open", wh), Op("convert", <<>>)>>]

\* Image.new('RGBA', (w, h), color)
NewRGBA(wh, color) == [size |-> wh, hist |-> <<Op("new", wh \o color)>>]

\* im.crop(box): a new image of the box's size
CropTo(im, box) ==
    [size |-> <<box[3] - box[1], box[4] - box[2]>>,
     hist |-> Append(im.hist, Op("crop", box))]

\* Resize with its result dropped: the image stays as it was
ResizeDropped(im, wh) == im

\* im.resize(size, Image.LANCZOS): a new image; im itself is not touched
Resize(im, wh) ==
    [size |-> wh, hist |-> Append(im.hist, Op("resize", wh))]

\* dst.paste(src, (x, y), src): dst is changed in place, src is read
Paste(dst, src, at) ==
    [size |-> dst.size,
     hist |-> Append(dst.hist,
                     [op |-> "paste", args |-> at, from |-> src.hist])]


(***************************************************************************)
(* process_icon.py: the functions.                                         *)
(***************************************************************************)
\* CropBox taking the box's right and bottom as inclusive
CropBoxInclusive(wh) ==
    LET side == Min(wh[1], wh[2])
        left == (wh[1] - side) \div 2
        top == (wh[2] - side) \div 2
    IN  <<left, top, left + side - 1, top + side - 1>>

\* CropBox without the centring: the square at the top left
CropBoxTopLeft(wh) ==
    LET side == Min(wh[1], wh[2]) IN <<0, 0, side, side>>

\* the box crop_square_center crops from an image of size <<w, h>>
CropBox(wh) ==
    LET w == wh[1]
        h == wh[2]
        side == Min(w, h)
        left == (w - side) \div 2
        top == (h - side) \div 2
    IN  <<left, top, left + side, top + side>>

crop_square_center(im) == CropTo(im, CropBox(im.size))

\* the warm cream background of the splash
SplashColor == <<254, 253, 251, 255>>

\* int(target_size * 0.4)
SplashIconSize(target_size) == FInt(FMul(FFromInt(target_size), FTenths(4)))

\* SplashOffset without the halving
SplashOffsetWhole(target_size, icon_size) == target_size - icon_size

\* (target_size - icon_size) // 2
SplashOffset(target_size, icon_size) == (target_size - icon_size) \div 2

\* Pillow's resize raises ValueError for a width or height below 1
ResizeRaises(wh) == wh[1] < 1 \/ wh[2] < 1

\* create_splash reducing the icon it was passed in place (as
\* Image.thumbnail does) and pasting that
create_splash_inplace(ic, target_size) ==
    LET new == NewRGBA(<<target_size, target_size>>, SplashColor)
        icon_size == SplashIconSize(target_size)
        small_icon == Resize(ic, <<icon_size, icon_size>>)
        offset == SplashOffset(target_size, icon_size)
    IN  [raised |-> ResizeRaises(<<icon_size, icon_size>>),
         ret |-> Paste(new, small_icon, <<offset, offset>>),
         arg |-> small_icon]

\* create_splash(icon, target_size): ret is the image returned, arg the
\* object passed as icon after the call, raised whether the call raised.
create_splash(ic, target_size) ==
    LET new == NewRGBA(<<target_size, target_size>>, SplashColor)
        icon_size == SplashIconSize(target_size)
        small_icon == Resize(ic, <<icon_size, icon_size>>)
        offset == SplashOffset(target_size, icon_size)
    IN  IF ResizeRaises(<<icon_size, icon_size>>)
        THEN [raised |-> TRUE, ret |-> NoImage, arg |-> ic]
        ELSE [raised |-> FALSE,
              ret |-> Paste(new, small_icon, <<offset, offset>>),
              arg |-> ic]

(***************************************************************************)
(* generate_icon.py: the functions.                                        *)
(***************************************************************************)
\* create_icon() returns a new SIZE x SIZE canvas; the specifications
\* SpecFont, SpecGradient, SpecGlow and SpecIcon model what it draws.
create_icon == [size |-> <<SIZE, SIZE>>, hist |-> <<Op("create_icon", <<>>)>>]

\* create_splash_icon(icon_img), as create_splash above
create_splash_icon(icon_img) ==
    LET new == NewRGBA(<<SIZE, SIZE>>, SplashColor)
        icon_size == SPLASH_ICON_SIZE
        small_icon == Resize(icon_img, <<icon_size, icon_size>>)
        offset == SplashOffset(SIZE, icon_size)
    IN  [raised |-> FALSE,
         ret |-> Paste(new, small_icon, <<offset, offset>>),
         arg |-> icon_img]

(***************************************************************************)
(* The __main__ blocks.  Every statement that calls into the imaging       *)
(* library or the file system may raise; nothing catches it, so the run    *)
(* ends there (pc = "aborted").                                            *)
(***************************************************************************)
FileNames == <<"icon.png", "adaptive-icon.png", "splash-icon.png", "favicon.png">>

\* the statements of the two __main__ blocks in their order
StatementOrder ==
    <<"open", "crop", "resize", "create_icon", "save_icon", "save_adaptive",
      "create_splash", "save_splash", "favicon", "save_favicon", "verify",
      "success", "done">>

\* Abort with the exception swallowed: the run goes on with the statement
\* after the one that raised
AbortSwallowed(printed) ==
    /\ pc' = StatementOrder[1 + CHOOSE i \in 1..Len(StatementOrder) :
                                      StatementOrder[i] = pc]
    /\ stdout' = stdout \o printed
    /\ UNCHANGED <<script, source, img, squared, icon, splash, favicon, disk>>

\* an exception leaves __main__: printed is what the statement printed
\* before it raised
Abort(printed) ==
    /\ pc' = "aborted"
    /\ stdout' = stdout \o printed
    /\ UNCHANGED <<script, source, img, squared, icon, splash, favicon, disk>>

\* im.save(os.path.join(ASSETS_DIR, name), 'PNG') and the print after it.
\* A save that raises leaves no file of this run (Pillow removes the file
\* it created).
Save(im, name, next) ==
    /\ disk' = Append(disk, [name |-> name, size |-> im.size, hist |-> im.hist])
    /\ stdout' = Append(stdout, "Saved: " \o name)
    /\ pc' = next

InMain(s, at) == script = s /\ pc = at

P_Open ==
    /\ InMain("process_icon", "open")
    /\ \/ /\ img' = OpenRGBA(source)
          /\ stdout' = stdout \o <<"Loading source", "Original size">>
          /\ pc' = "crop"
          /\ UNCHANGED <<script, source, squared, icon, splash, favicon, disk>>
       \/ Abort(<<"Loading source">>)
    /\ UNCHANGED notMain

P_Crop ==
    /\ InMain("process_icon", "crop")
    /\ \/ /\ squared' = crop_square_center(img)
          /\ stdout' = Append(stdout, "Cropped square")
          /\ pc' = "resize"
          /\ UNCHANGED <<script, source, img, icon, splash, favicon, disk>>
       \/ Abort(<<>>)
    /\ UNCHANGED notMain

P_Resize ==
    /\ InMain("process_icon", "resize")
    /\ \/ /\ icon' = Resize(squared, <<TARGET_SIZE, TARGET_SIZE>>)
          /\ stdout' = Append(stdout, "Upscaled")
          /\ pc' = "save_icon"
          /\ UNCHANGED <<script, source, img, squared, splash, favicon, disk>>
       \/ Abort(<<>>)
    /\ UNCHANGED notMain

P_SaveIcon ==
    /\ InMain("process_icon", "save_icon")
    /\ \/ /\ Save(icon, FileNames[1], "save_adaptive")
          /\ UNCHANGED <<script, source, img, squared, icon, splash, favicon>>
       \/ Abort(<<>>)
    /\ UNCHANGED notMain

P_SaveAdaptive ==
    /\ InMain("process_icon", "save_adaptive")
    /\ \/ /\ Save(icon, FileNames[2], "create_splash")
          /\ UNCHANGED <<script, source, img, squared, icon, splash, favicon>>
       \/ Abort(<<>>)
    /\ UNCHANGED notMain

P_CreateSplash ==
    /\ InMain("process_icon", "create_splash")
    /\ LET r == create_splash(icon, TARGET_SIZE)
       IN  \/ /\ ~r.raised
              /\ splash' = r.ret
              /\ icon' = r.arg
              /\ pc' = "save_splash"
              /\ UNCHANGED <<script, source, img, squared, favicon, disk, stdout>>
           \/ Abort(<<>>)
    /\ UNCHANGED notMain

P_SaveSplash ==
    /\ InMain("process_icon", "save_splash")
    /\ \/ /\ Save(splash, FileNames[3], "favicon")
          /\ UNCHANGED <<script, source, img, squared, icon, splash, favicon>>
       \/ Abort(<<>>)
    /\ UNCHANGED notMain

P_Favicon ==
    /\ InMain("process_icon", "favicon")
    /\ \/ /\ favicon' = Resize(icon, <<FAVICON_SIZE, FAVICON_SIZE>>)
          /\ pc' = "save_favicon"
          /\ UNCHANGED <<script, source, img, squared, icon, splash, disk, stdout>>
       \/ Abort(<<>>)
    /\ UNCHANGED notMain

P_SaveFavicon ==
    /\ InMain("process_icon", "save_favicon")
    /\ \/ /\ Save(favicon, FileNames[4], "verify")
          /\ UNCHANGED <<script, source, img, squared, icon, splash, favicon>>
       \/ Abort(<<>>)
    /\ UNCHANGED notMain

\* the loop that opens the four files again and prints their sizes
P_Verify ==
    /\ InMain("process_icon", "verify")
    /\ \/ /\ stdout' = stdout \o [i \in 1..Len(FileNames) |-> "  " \o FileNames[i]]
          /\ pc' = "success"
          /\ UNCHANGED <<script, source, img, squared, icon, splash, favicon, disk>>
       \/ \E n \in 0..(Len(FileNames) - 1) :
              Abort([i \in 1..n |-> "  " \o FileNames[i]])
    /\ UNCHANGED notMain

P_Success ==
    /\ InMain("process_icon", "success")
    /\ stdout' = Append(stdout, "All icons generated successfully!")
    /\ pc' = "done"
    /\ UNCHANGED <<script, source, img, squared, icon, splash, favicon, disk>>
    /\ UNCHANGED notMain

G_CreateIcon ==
    /\ InMain("generate_icon", "create_icon")
    /\ \/ /\ icon' = create_icon
          /\ stdout' = Append(stdout, "Generating Lena app icon...")
          /\ pc' = "save_icon"
          /\ UNCHANGED <<script, source, img, squared, splash, favicon, disk>>
       \/ Abort(<<"Generating Lena app icon...">>)
    /\ UNCHANGED notMain

G_SaveIcon ==
    /\ InMain("generate_icon", "save_icon")
    /\ \/ /\ Save(icon, FileNames[1], "save_adaptive")
          /\ UNCHANGED <<script, source, img, squared, icon, splash, favicon>>
       \/ Abort(<<>>)
    /\ UNCHANGED notMain

G_SaveAdaptive ==
    /\ InMain("generate_icon", "save_adaptive")
    /\ \/ /\ Save(icon, FileNames[2], "create_splash")
          /\ UNCHANGED <<script, source, img, squared, icon, splash, favicon>>
       \/ Abort(<<>>)
    /\ UNCHANGED notMain

G_CreateSplash ==
    /\ InMain("generate_icon", "create_splash")
    /\ LET r == create_splash_icon(icon)
       IN  \/ /\ ~r.raised
              /\ splash' = r.ret
              /\ icon' = r.arg
              /\ pc' = "save_splash"
              /\ UNCHANGED <<script, source, img, squared, favicon, disk, stdout>>
           \/ Abort(<<>>)
    /\ UNCHANGED notMain

G_SaveSplash ==
    /\ InMain("generate_icon", "save_splash")
    /\ \/ /\ Save(splash, FileNames[3], "favicon")
          /\ UNCHANGED <<script, source, img, squared, icon, splash, favicon>>
       \/ Abort(<<>>)
    /\ UNCHANGED notMain

G_Favicon ==
    /\ InMain("generate_icon", "favicon")
    /\ \/ /\ favicon' = Resize(icon, <<FAVICON_SIZE, FAVICON_SIZE>>)
          /\ pc' = "save_favicon"
          /\ UNCHANGED <<script, source, img, squared, icon, splash, disk, stdout>>
       \/ Abort(<<>>)
    /\ UNCHANGED notMain

G_SaveFavicon ==
    /\ InMain("generate_icon", "save_favicon")
    /\ \/ /\ Save(favicon, FileNames[4], "success")
          /\ UNCHANGED <<script, source, img, squared, icon, splash, favicon>>
       \/ Abort(<<>>)
    /\ UNCHANGED notMain

G_Success ==
    /\ InMain("generate_icon", "success")
    /\ stdout' = Append(stdout, "All icons generated successfully!")
    /\ pc' = "done"
    /\ UNCHANGED <<script, source, img, squared, icon, splash, favicon, disk>>
    /\ UNCHANGED notMain

\* no script runs: the state of the main variables in the other
\* specifications
MainIdle ==
    /\ script = "none"
    /\ pc = "idle"
    /\ source = <<0, 0>>
    /\ img = NoImage
    /\ squared = NoImage
    /\ icon = NoImage
    /\ splash = NoImage
    /\ favicon = NoImage
    /\ disk = <<>>
    /\ stdout = <<>>

CropIdle == cimg = NoImage /\ cops = <<>>

GradIdle == gy = 0 /\ gimg = <<>>

GlowIdle == gli = 0 /\ glow = <<>>

IconIdle ==
    /\ ipc = "idle"
    /\ iimg = <<>>
    /\ imask = <<>>
    /\ iglow = <<>>
    /\ iglyph = <<0, 0, 0>>

NoSmall == [side |-> 0, content |-> <<0, 0, 0>>]

SplashIdle ==
    /\ sfn = "none"
    /\ sts = 0
    /\ spc = "idle"
    /\ ssmall = NoSmall
    /\ scanvas = <<>>
    /\ sbox = <<>>

FontIdle ==
    /\ fontfile = <<>>
    /\ fpc = "idle"
    /\ fi = 0
    /\ font = "None"
    /\ fchecked = <<>>
    /\ ftried = <<>>

Init ==
    /\ \/ script = "generate_icon" /\ pc = "create_icon" /\ source = <<0, 0>>
       \/ script = "process_icon" /\ pc = "open" /\ source \in Dims \X Dims
    /\ img = NoImage
    /\ squared = NoImage
    /\ icon = NoImage
    /\ splash = NoImage
    /\ favicon = NoImage
    /\ disk = <<>>
    /\ stdout = <<>>
    /\ CropIdle
    /\ FontIdle
    /\ GradIdle
    /\ GlowIdle
    /\ SplashIdle
    /\ IconIdle

Next ==
    \/ P_Open \/ P_Crop \/ P_Resize \/ P_SaveIcon \/ P_SaveAdaptive
    \/ P_CreateSplash \/ P_SaveSplash \/ P_Favicon \/ P_SaveFavicon
    \/ P_Verify \/ P_Success
    \/ G_CreateIcon \/ G_SaveIcon \/ G_SaveAdaptive \/ G_CreateSplash
    \/ G_SaveSplash \/ G_Favicon \/ G_SaveFavicon \/ G_Success

Spec == Init /\ [][Next]_vars


(***************************************************************************)
(* The claims checked under Spec.                                          *)
(***************************************************************************)
SuccessLine == "All icons generated successfully!"
Printed(line) == \E i \in 1..Len(stdout) : stdout[i] = line
Names(d) == [i \in 1..Len(d) |-> d[i].name]
IsPrefix(a, b) == Len(a) <= Len(b) /\ a = SubSeq(b, 1, Len(a))

\* C1: a run of either script that ends without an error has written
\* exactly the four files icon.png, adaptive-icon.png, splash-icon.png and
\* favicon.png, of sizes 1024x1024, 1024x1024, 1024x1024 and 48x48,
\* whatever the size of the source image.
C1_FourFiles ==
    pc = "done" =>
        /\ Names(disk) = FileNames
        /\ Printed(SuccessLine)
        /\ disk[1].size = <<1024, 1024>>
        /\ disk[2].size = <<1024, 1024>>
        /\ disk[3].size = <<1024, 1024>>
        /\ disk[4].size = <<48, 48>>

C1_Witness ==
    /\ pc = "done"
    /\ script = "process_icon"
    /\ source = <<3, 2000>>
    /\ Len(disk) = 4

\* C2: crop_square_center crops the box (left, top, left+side, top+side)
\* with side = min(w, h), left = floor((w-side)/2), top = floor((h-side)/2);
\* the box lies inside the source, the result is side x side, the margins
\* cut on opposite sides differ by at most one pixel, and a 2000x1000
\* source gives 1000x1000 from x-offset 500, y-offset 0.
C2_CropBox ==
    (script = "process_icon" /\ squared # NoImage) =>
        LET w == img.size[1]
            h == img.size[2]
            side == IF w <= h THEN w ELSE h
            box == squared.hist[Len(squared.hist)].args
            left == box[1]
            top == box[2]
            right == w - box[3]
            bottom == h - box[4]
        IN  /\ img.size = source
            /\ squared.hist[Len(squared.hist)].op = "crop"
            /\ 2 * left <= w - side /\ w - side < 2 * left + 2
            /\ 2 * top <= h - side /\ h - side < 2 * top + 2
            /\ box[3] = left + side /\ box[4] = top + side
            /\ 0 <= left /\ box[3] <= w /\ 0 <= top /\ box[4] <= h
            /\ squared.size = <<side, side>>
            /\ right - left \in {0, 1} /\ bottom - top \in {0, 1}
            /\ (source = <<2000, 1000>> =>
                    squared.size = <<1000, 1000>> /\ left = 500 /\ top = 0)

C2_Witness ==
    /\ script = "process_icon"
    /\ source = <<2000, 1000>>
    /\ squared.size = <<1000, 1000>>

\* the number of files written when the statement at is about to execute
FilesBefore(at) ==
    CASE at \in {"open", "crop", "resize", "create_icon", "save_icon"} -> 0
      [] at = "save_adaptive" -> 1
      [] at \in {"create_splash", "save_splash"} -> 2
      [] at \in {"favicon", "save_favicon"} -> 3
      [] OTHER -> 4

C3_State ==
    /\ IsPrefix(Names(disk), FileNames)
    /\ disk # <<>> => icon # NoImage
    /\ (disk # <<>> /\ script = "process_icon") =>
            img # NoImage /\ squared # NoImage
    /\ pc \notin {"aborted"} => Len(disk) = FilesBefore(pc)
    /\ pc = "aborted" => ~Printed(SuccessLine)
    /\ Printed(SuccessLine) => pc = "done"

C3_Step ==
    /\ pc # "aborted"
    /\ pc' = "aborted" => disk' = disk /\ Len(disk') = FilesBefore(pc)
    /\ Len(disk') <= Len(disk) + 1
    /\ SubSeq(disk', 1, Len(disk)) = disk

\* C3: in a run of the post-processor (and of the synthesizer) no file is
\* written before the load, the crop and the resize have succeeded; the
\* files written are always a prefix of icon.png, adaptive-icon.png,
\* splash-icon.png, favicon.png; a step that fails ends the run, with no
\* file written after it and the success message never printed: a failed
\* load leaves no file, a failed k-th write the first k-1 files.
C3_PrefixAndAbort == [](C3_State) /\ [][C3_Step]_vars

C3_Witness ==
    /\ script = "process_icon"
    /\ pc = "aborted"
    /\ Names(disk) = <<"icon.png", "adaptive-icon.png">>

\* C8: adaptive-icon.png has the content of icon.png, favicon.png is the
\* 48x48 resize of that same icon and the splash pastes a resized copy of
\* it: the icon object is as it was when icon.png was saved at every later
\* statement.
C8_OneIcon ==
    /\ Len(disk) >= 1 =>
            /\ icon.hist = disk[1].hist
            /\ icon.size = disk[1].size
    /\ Len(disk) >= 2 =>
            /\ disk[2].hist = disk[1].hist
            /\ disk[2].size = disk[1].size
    /\ splash # NoImage =>
            LET k == IF script = "process_icon" THEN 409 ELSE 400
                last == splash.hist[Len(splash.hist)]
            IN  /\ last.op = "paste"
                /\ last.from = Append(icon.hist, Op("resize", <<k, k>>))
                /\ Len(disk) >= 3 =>
                        disk[3].hist = splash.hist
    /\ favicon # NoImage =>
            /\ favicon.hist = Append(disk[1].hist, Op("resize", <<48, 48>>))
            /\ Len(disk) >= 4 => disk[4].hist = favicon.hist

C8_Witness ==
    /\ pc = "done"
    /\ script = "generate_icon"
    /\ Len(disk) = 4
    /\ disk[4].hist = <<Op("create_icon", <<>>), Op("resize", <<48, 48>>)>>


(***************************************************************************)
(* SpecCrop: crop_square_center and the upscale of lines 37-40 of          *)
(* process_icon.py applied, in any order, to an image and then to their    *)
(* own results.                                                            *)
(***************************************************************************)
CropStep ==
    /\ Len(cops) < MaxOps
    /\ cimg' = crop_square_center(cimg)
    /\ cops' = Append(cops, [op |-> "crop",
                             box |-> cimg'.hist[Len(cimg'.hist)].args,
                             before |-> cimg.size,
                             after |-> cimg'.size])
    /\ UNCHANGED notCrop

UpscaleStep ==
    /\ Len(cops) < MaxOps
    /\ cimg' = Resize(cimg, <<TARGET_SIZE, TARGET_SIZE>>)
    /\ cops' = Append(cops, [op |-> "resize",
                             box |-> <<0, 0, cimg.size[1], cimg.size[2]>>,
                             before |-> cimg.size,
                             after |-> cimg'.size])
    /\ UNCHANGED notCrop

InitCrop ==
    /\ MainIdle
    /\ FontIdle
    /\ GradIdle
    /\ GlowIdle
    /\ cimg \in {OpenRGBA(wh) : wh \in Dims \X Dims}
    /\ cops = <<>>
    /\ SplashIdle
    /\ IconIdle

NextCrop == CropStep \/ UpscaleStep

SpecCrop == InitCrop /\ [][NextCrop]_vars

\* C7: crop_square_center applied to the result of crop_square_center, or
\* to the 1024x1024 result of the crop-and-upscale, selects the whole image
\* (left = top = 0, the side unchanged), and the upscale after it gives
\* 1024x1024 again.
C7_CropIdempotent ==
    \A i \in 2..Len(cops) :
        cops[i].op = "crop" =>
            /\ cops[i].box = <<0, 0, cops[i].before[1], cops[i].before[1]>>
            /\ cops[i].after = cops[i].before
            /\ cops[i].before = cops[i - 1].after
            /\ cops[i - 1].op = "resize" => cops[i].after = <<1024, 1024>>
            /\ (i < Len(cops) /\ cops[i + 1].op = "resize") =>
                    cops[i + 1].after = <<1024, 1024>>

C7_Witness ==
    /\ Len(cops) = 4
    /\ cops[1].before = <<2000, 1000>>
    /\ [i \in 1..4 |-> cops[i].op] = <<"crop", "resize", "crop", "resize">>
    /\ cops[3].box = <<0, 0, 1024, 1024>>


(***************************************************************************)
(* SpecFont: the font resolution of create_icon, lines 70-93 of            *)
(* generate_icon.py, one action per path taken through one iteration of    *)
(* the loop.  The paths of font_paths hold, each, no file, a font that     *)
(* loads, or a file on which ImageFont.truetype raises.                    *)
(***************************************************************************)
font_paths ==
    <<"/System/Library/Fonts/Supplemental/Georgia Bold.ttf",
      "/System/Library/Fonts/Supplemental/Georgia.ttf",
      "/System/Library/Fonts/Supplemental/Times New Roman Bold.ttf",
      "/System/Library/Fonts/NewYork.ttf",
      "/System/Library/Fonts/Helvetica.ttc",
      "/System/Library/Fonts/SFCompact.ttf">>

\* what ImageFont.truetype raises on a file it cannot load
LoadErrors == {"OSError", "ValueError"}
FontFileStates == {"missing", "loads"} \cup LoadErrors

\* os.path.exists(fp)
Exists(i) == fontfile[i] # "missing"

\* the bare except clause of line 88 catches every exception
Catches(exc) == TRUE

\* the loop going on to the next path after a font loaded
AfterLoadedContinue(i) == [fpc |-> "loop", fi |-> i + 1]

\* the break of line 87
AfterLoaded(i) == [fpc |-> "after_loop", fi |-> i]

\* for fp in font_paths: the loop variable takes the next path, or the loop
\* ends
F_LoopEnd ==
    /\ fpc = "loop"
    /\ fi > Len(font_paths)
    /\ fpc' = "after_loop"
    /\ UNCHANGED <<fontfile, fi, font, fchecked, ftried>>
    /\ UNCHANGED notFont

\* os.path.exists(fp) is false
F_Missing ==
    /\ fpc = "loop"
    /\ fi <= Len(font_paths)
    /\ ~Exists(fi)
    /\ fchecked' = Append(fchecked, fi)
    /\ fi' = fi + 1
    /\ UNCHANGED <<fontfile, fpc, font, ftried>>
    /\ UNCHANGED notFont

\* the file exists and ImageFont.truetype returns the font
F_Loaded ==
    /\ fpc = "loop"
    /\ fi <= Len(font_paths)
    /\ Exists(fi)
    /\ fontfile[fi] = "loads"
    /\ fchecked' = Append(fchecked, fi)
    /\ ftried' = Append(ftried, fi)
    /\ font' = font_paths[fi]
    /\ fpc' = AfterLoaded(fi).fpc
    /\ fi' = AfterLoaded(fi).fi
    /\ UNCHANGED fontfile
    /\ UNCHANGED notFont

\* the file exists and ImageFont.truetype raises
F_LoadFailed ==
    /\ fpc = "loop"
    /\ fi <= Len(font_paths)
    /\ Exists(fi)
    /\ fontfile[fi] \in LoadErrors
    /\ fchecked' = Append(fchecked, fi)
    /\ ftried' = Append(ftried, fi)
    /\ IF Catches(fontfile[fi])
       THEN fi' = fi + 1 /\ fpc' = "loop"
       ELSE fi' = fi /\ fpc' = "aborted"
    /\ UNCHANGED <<fontfile, font>>
    /\ UNCHANGED notFont

\* if font is None: font = ImageFont.load_default()
F_Default ==
    /\ fpc = "after_loop"
    /\ font = "None"
    /\ font' = "default"
    /\ fpc' = "done"
    /\ UNCHANGED <<fontfile, fi, fchecked, ftried>>
    /\ UNCHANGED notFont

F_Resolved ==
    /\ fpc = "after_loop"
    /\ font # "None"
    /\ fpc' = "done"
    /\ UNCHANGED <<fontfile, fi, font, fchecked, ftried>>
    /\ UNCHANGED notFont

InitFont ==
    /\ MainIdle
    /\ CropIdle
    /\ GradIdle
    /\ GlowIdle
    /\ fontfile \in [1..Len(font_paths) -> FontFileStates]
    /\ fpc = "loop"
    /\ fi = 1
    /\ font = "None"
    /\ fchecked = <<>>
    /\ ftried = <<>>
    /\ SplashIdle
    /\ IconIdle

NextFont ==
    \/ F_LoopEnd \/ F_Missing \/ F_Loaded \/ F_LoadFailed
    \/ F_Default \/ F_Resolved

SpecFont == InitFont /\ [][NextFont]_vars

\* the candidates that exist and load
Loadable == {i \in 1..Len(font_paths) : fontfile[i] = "loads"}
\* the first of them, or the length of the list if there is none
LastTried ==
    IF Loadable = {} THEN Len(font_paths)
    ELSE CHOOSE i \in Loadable : \A j \in Loadable : i <= j
\* the elements of 1..n that are in S, in increasing order
RECURSIVE Ascending(_, _)
Ascending(n, S) ==
    IF n = 0 THEN <<>>
    ELSE IF n \in S THEN Append(Ascending(n - 1, S), n)
    ELSE Ascending(n - 1, S)
Existing == {i \in 1..Len(font_paths) : Exists(i)}

\* C4: the candidates are tried in list order; the first that exists and
\* loads is selected and none after it is tried; one that is missing or
\* fails to load is skipped; the default font is used exactly when no
\* candidate exists and loads; the resolution never aborts and always ends
\* with a font selected.
C4_FontResolution ==
    /\ fpc \in {"loop", "after_loop", "done"}
    /\ fpc # "done" => ENABLED NextFont
    /\ IsPrefix(fchecked, Ascending(LastTried, 1..Len(font_paths)))
    /\ IsPrefix(ftried, Ascending(LastTried, Existing))
    /\ fpc \in {"after_loop", "done"} =>
            /\ fchecked = Ascending(LastTried, 1..Len(font_paths))
            /\ ftried = Ascending(LastTried, Existing)
    /\ fpc = "done" =>
            /\ font # "None"
            /\ font = "default" <=> Loadable = {}
            /\ Loadable # {} => font = font_paths[LastTried]

C4_Witness ==
    /\ fpc = "done"
    /\ fontfile = <<"missing", "OSError", "ValueError", "loads", "loads", "missing">>
    /\ font = font_paths[4]
    /\ ftried = <<2, 3, 4>>


(***************************************************************************)
(* SpecGradient: the gradient of create_icon, lines 16-46 of               *)
(* generate_icon.py, one action per iteration of the loop over the rows.   *)
(* The arithmetic is Python's: y / SIZE, t / 0.3 and the rest are float    *)
(* operations, int() truncates.                                            *)
(***************************************************************************)
color_top == <<245, 230, 211>>
color_mid1 == <<229, 160, 92>>
color_mid2 == <<217, 133, 59>>
color_bottom == <<184, 114, 46>>

\* the float literals of lines 40-45
F0_3 == FTenths(3)
F0_6 == FTenths(6)
F0_4 == FTenths(4)

\* lerp_color rounding to the nearest integer instead of truncating
lerp_color_round(c1, c2, t) ==
    [i \in 1..3 |->
        FInt(FAdd(FAdd(FFromInt(c1[i]), FMul(FFromInt(c2[i] - c1[i]), t)),
                  FDiv(FFromInt(1), FFromInt(2))))]

\* lerp_color(c1, c2, t): int(c1[i] + (c2[i] - c1[i]) * t) for the channels
lerp_color(c1, c2, t) ==
    [i \in 1..3 |->
        FInt(FAdd(FFromInt(c1[i]), FMul(FFromInt(c2[i] - c1[i]), t)))]

\* the color of row y: lines 39-45
RowColor(y) ==
    LET t == FDiv(FFromInt(y), FFromInt(SIZE))
    IN  IF FLess(t, F0_3)
        THEN lerp_color(color_top, color_mid1, FDiv(t, F0_3))
        ELSE IF FLess(t, F0_6)
        THEN lerp_color(color_mid1, color_mid2, FDiv(FSub(t, F0_3), F0_3))
        ELSE lerp_color(color_mid2, color_bottom, FDiv(FSub(t, F0_6), F0_4))

\* the columns of the canvas the model holds
SampleCols == {(i * (SIZE - 1)) \div NumCols : i \in 0..NumCols}

\* draw.line([(x0, y), (x1, y)], fill) on the row: both ends are drawn
DrawLine(row, x0, x1, fill) ==
    [x \in DOMAIN row |-> IF x0 <= x /\ x <= x1 THEN fill ELSE row[x]]

\* one iteration of the loop of lines 38-46
GradientRow ==
    /\ gy < SIZE
    /\ gimg' = [gimg EXCEPT
                   ![gy] = DrawLine(@, 0, SIZE - 1, RowColor(gy) \o <<255>>)]
    /\ gy' = gy + 1
    /\ UNCHANGED notGrad

\* Image.new('RGBA', (SIZE, SIZE), (0, 0, 0, 0))
InitGradient ==
    /\ MainIdle
    /\ CropIdle
    /\ FontIdle
    /\ GlowIdle
    /\ gy = 0
    /\ gimg = [y \in 0..(SIZE - 1) |-> [x \in SampleCols |-> <<0, 0, 0, 0>>]]
    /\ SplashIdle
    /\ IconIdle

NextGradient == GradientRow

SpecGradient == InitGradient /\ [][NextGradient]_vars

\* a + (b - a) * n / d truncated, in exact integer arithmetic
ExactLerp(a, b, n, d) == (a * d + (b - a) * n) \div d

\* The color of row y by the formula of the specification, with t = y/S
\* and the fractions exact: t/0.3 = 10y/3072, (t-0.3)/0.3 = (10y-3072)/3072,
\* (t-0.6)/0.4 = (10y-6144)/4096.
ExactRow(y) ==
    IF 10 * y < 3072
    THEN [i \in 1..3 |-> ExactLerp(color_top[i], color_mid1[i], 10 * y, 3072)]
    ELSE IF 10 * y < 6144
    THEN [i \in 1..3 |->
             ExactLerp(color_mid1[i], color_mid2[i], 10 * y - 3072, 3072)]
    ELSE [i \in 1..3 |->
             ExactLerp(color_mid2[i], color_bottom[i], 10 * y - 6144, 4096)]

\* the stops bounding the segment of row y
SegmentOf(y) ==
    IF y <= 307 THEN <<color_top, color_mid1>>
    ELSE IF y <= 614 THEN <<color_mid1, color_mid2>>
    ELSE <<color_mid2, color_bottom>>

\* C5: every pixel of every row y drawn has alpha 255 and the color the
\* piecewise formula gives for t = y/1024, truncated per channel: rows
\* 0..307 by the first segment, 308..614 by the second, 615..1023 by the
\* third, every channel in 0..255 between the stops of its segment.  The
\* rows not yet drawn are transparent.
C5_GradientRows ==
    \A y \in 0..(SIZE - 1) :
        LET c == ExactRow(y)
            seg == SegmentOf(y)
        IN  IF y < gy
            THEN /\ \A x \in SampleCols : gimg[y][x] = c \o <<255>>
                 /\ \A i \in 1..3 :
                        /\ c[i] \in 0..255
                        /\ seg[2][i] <= c[i] /\ c[i] <= seg[1][i]
                 /\ (10 * y < 3072) = (y <= 307)
                 /\ (10 * y < 6144) = (y <= 614)
            ELSE \A x \in SampleCols : gimg[y][x] = <<0, 0, 0, 0>>

C5_Witness ==
    /\ gy = SIZE
    /\ gimg[0][0] = <<245, 230, 211, 255>>
    /\ gimg[307][SIZE - 1] = <<229, 160, 92, 255>>
    /\ gimg[308][0] = <<228, 159, 91, 255>>
    /\ gimg[615][SIZE - 1] = <<216, 132, 58, 255>>


(***************************************************************************)
(* SpecGlow: the glow layer of create_icon, lines 51-61 of                 *)
(* generate_icon.py, one action per circle drawn.                          *)
(***************************************************************************)
center_x == SIZE \div 2
center_y == SIZE \div 3
max_radius == SIZE \div 2

\* the values r takes in the loop the other way round: 2, 4, ..., max_radius
GlowRadiiAscending == [i \in 1..(max_radius \div 2) |-> 2 * i]

\* range(max_radius, 0, -2): the values r takes, in order
GlowRadii == [i \in 1..((max_radius + 1) \div 2) |-> max_radius - 2 * (i - 1)]

\* int(40 * (1 - r / max_radius) ** 2)
GlowAlpha(r) ==
    LET x == FSub(FFromInt(1), FDiv(FFromInt(r), FFromInt(max_radius)))
    IN  FInt(FMul(FFromInt(40), FMul(x, x)))

\* Whether ellipse(box) fills the pixel p, for a box that is a square of
\* odd side: the pixels up to half the side minus one half from the centre
\* of the box.
InEllipse(p, box) ==
    LET cx == (box[1] + box[3]) \div 2
        cy == (box[2] + box[4]) \div 2
        r == (box[3] - box[1]) \div 2
    IN  (p[1] - cx) * (p[1] - cx) + (p[2] - cy) * (p[2] - cy) <= r * r

\* draw.ellipse(box, fill) on an RGBA canvas: the pixels are replaced
DrawEllipse(canvas, box, fill) ==
    [p \in DOMAIN canvas |-> IF InEllipse(p, box) THEN fill ELSE canvas[p]]

\* the pixels of the canvas the model holds
GlowRay ==
    {<<center_x + k, center_y>> : k \in 0..4}
        \cup {<<SIZE - 1 - k, center_y>> : k \in 0..3}
        \cup {<<center_x, center_y + max_radius + k>> : k \in 0..1}
GlowPixels ==
    LET at == {(i * (SIZE - 1)) \div GlowGrid : i \in 0..GlowGrid}
    IN  (at \X at) \cup GlowRay

\* one iteration of the loop of lines 56-61
GlowCircle ==
    /\ gli <= Len(GlowRadii)
    /\ LET r == GlowRadii[gli]
       IN  glow' = DrawEllipse(glow,
                       <<center_x - r, center_y - r, center_x + r, center_y + r>>,
                       <<255, 255, 255, GlowAlpha(r)>>)
    /\ gli' = gli + 1
    /\ UNCHANGED notGlow

\* glow = Image.new('RGBA', (SIZE, SIZE), (0, 0, 0, 0))
InitGlow ==
    /\ MainIdle
    /\ CropIdle
    /\ FontIdle
    /\ GradIdle
    /\ gli = 1
    /\ glow = [p \in GlowPixels |-> <<0, 0, 0, 0>>]
    /\ SplashIdle
    /\ IconIdle

NextGlow == GlowCircle

SpecGlow == InitGlow /\ [][NextGlow]_vars

\* floor(40 * (1 - r/R)^2) for R = 512, in integer arithmetic
ExactGlowAlpha(r) == (40 * (512 - r) * (512 - r)) \div (512 * 512)

\* the square of the distance of p from the center (S/2, S/3)
Dist2(p) == (p[1] - 512) * (p[1] - 512) + (p[2] - 341) * (p[2] - 341)

\* the radii drawn so far: 512, 510, ... down in steps of 2
DrawnRadii == {r \in 1..512 : r % 2 = 0 /\ r > 512 - 2 * (gli - 1)}

\* the drawn circles that cover p
Covering(p) == {r \in DrawnRadii : Dist2(p) <= r * r}

\* C6: on the glow layer the alpha of every pixel is that of the smallest
\* circle drawn so far that covers it (0 if none does), which is the
\* highest alpha among the circles covering it; the alpha does not increase
\* with the distance from the center (S/2, S/3) and lies between 0, at the
\* edge, and at most 40, at the center.
C6_GlowAlpha ==
    /\ \A p \in GlowPixels :
           LET cov == Covering(p)
           IN  /\ glow[p][4] \in 0..40
               /\ IF cov = {}
                  THEN glow[p] = <<0, 0, 0, 0>>
                  ELSE LET least == CHOOSE r \in cov : \A q \in cov : r <= q
                       IN  /\ glow[p] = <<255, 255, 255, ExactGlowAlpha(least)>>
                           /\ \A r \in cov : ExactGlowAlpha(r) <= glow[p][4]
    /\ \A p \in GlowPixels : \A q \in GlowPixels :
           Dist2(p) <= Dist2(q) => glow[p][4] >= glow[q][4]
    /\ gli > Len(GlowRadii) =>
           /\ glow[<<512, 341>>][4] = 39
           /\ \A p \in GlowPixels : Dist2(p) >= 510 * 510 => glow[p][4] = 0

C6_Witness ==
    /\ gli > Len(GlowRadii)
    /\ glow[<<512, 341>>] = <<255, 255, 255, 39>>
    /\ glow[<<516, 341>>] = <<255, 255, 255, 39>>
    /\ \E p \in GlowPixels : glow[p][4] \in 1..38
    /\ glow[<<1023, 341>>] = <<255, 255, 255, 0>>
    /\ glow[<<0, 0>>] = <<0, 0, 0, 0>>


(***************************************************************************)
(* SpecSplash: create_splash (process_icon.py, lines 21-28) and            *)
(* create_splash_icon (generate_icon.py, lines 128-138) on pixels, one     *)
(* action per statement.  The content of the resized icon is one of a      *)
(* family of patterns with transparent, half transparent and opaque        *)
(* pixels.                                                                 *)
(***************************************************************************)
IconPixelValues == <<<<184, 114, 46, 0>>, <<217, 133, 59, 128>>, <<245, 230, 211, 255>>>>

Contents == (0..2) \X (0..2) \X (0..2)

\* the pixel (i, j) of a small icon of content c
SmallPixel(c, i, j) == IconPixelValues[1 + ((c[1] * i + c[2] * j + c[3]) % 3)]

\* the coordinates of the pixels of a splash of side ts the model holds:
\* all of them up to MaxTarget, else those around the edges of the canvas
\* and of the pasted square
SplashCoords(ts) ==
    IF ts <= MaxTarget THEN 0..(ts - 1)
    ELSE {0, 1, ts \div 2, ts - 2, ts - 1}
            \cup {x \in 0..(ts - 1) : x % 100 \in {6, 7, 11, 12, 15, 16}}

SplashPixels(ts) == SplashCoords(ts) \X SplashCoords(ts)

\* Pillow's blend of one channel under a mask value a
Blend8(dst, src, a) ==
    LET tmp == a * src + (255 - a) * dst + 128
    IN  ((tmp \div 256) + tmp) \div 256

\* canvas.paste(small, (at, at), small): the pixels of the box, clipped to
\* the canvas, are blended with the small icon's under its alpha
PastePixels(canvas, small, at) ==
    [p \in DOMAIN canvas |->
        IF /\ at <= p[1] /\ p[1] < at + small.side
           /\ at <= p[2] /\ p[2] < at + small.side
        THEN LET src == SmallPixel(small.content, p[1] - at, p[2] - at)
             IN  [ch \in 1..4 |-> Blend8(canvas[p][ch], src[ch], src[4])]
        ELSE canvas[p]]

\* the side of the small icon: int(target_size * 0.4), or 400
SmallSide ==
    IF sfn = "create_splash" THEN SplashIconSize(sts) ELSE SPLASH_ICON_SIZE

\* splash = Image.new('RGBA', (target_size, target_size), (254, 253, 251, 255))
\* and icon_size
S_New ==
    /\ spc = "new"
    /\ scanvas' = [p \in SplashPixels(sts) |-> SplashColor]
    /\ spc' = "resize"
    /\ UNCHANGED <<sfn, sts, ssmall, sbox>>
    /\ UNCHANGED notSplash

\* small_icon = icon.resize((icon_size, icon_size), Image.LANCZOS)
S_Resize ==
    /\ spc = "resize"
    /\ IF ResizeRaises(<<SmallSide, SmallSide>>)
       THEN spc' = "raised" /\ UNCHANGED ssmall
       ELSE /\ spc' = "paste"
            /\ \E c \in Contents : ssmall' = [side |-> SmallSide, content |-> c]
    /\ UNCHANGED <<sfn, sts, scanvas, sbox>>
    /\ UNCHANGED notSplash

\* offset = (target_size - icon_size) // 2 and
\* splash.paste(small_icon, (offset, offset), small_icon)
S_Paste ==
    /\ spc = "paste"
    /\ LET offset == SplashOffset(sts, ssmall.side)
       IN  /\ scanvas' = PastePixels(scanvas, ssmall, offset)
           /\ sbox' = <<offset, offset, offset + ssmall.side, offset + ssmall.side>>
    /\ spc' = "done"
    /\ UNCHANGED <<sfn, sts, ssmall>>
    /\ UNCHANGED notSplash

InitSplash ==
    /\ MainIdle
    /\ CropIdle
    /\ FontIdle
    /\ GradIdle
    /\ GlowIdle
    /\ \/ sfn = "create_splash" /\ sts \in (1..MaxTarget) \cup {TARGET_SIZE}
       \/ sfn = "create_splash_icon" /\ sts = SIZE
    /\ spc = "new"
    /\ ssmall = NoSmall
    /\ scanvas = <<>>
    /\ sbox = <<>>
    /\ IconIdle

NextSplash == S_New \/ S_Resize \/ S_Paste

SpecSplash == InitSplash /\ [][NextSplash]_vars

Background == <<254, 253, 251, 255>>

\* C9 without what it says of the margins: the icon side is
\* floor(0.4 * target_size) in the post-processor (409 for 1024) and 400
\* on the 1024 canvas of the synthesizer, the paste offset is
\* floor((target_size - side) / 2) on both axes, the pasted square lies
\* inside the canvas, and every pixel outside it, and every pixel inside it
\* where the reduced icon's alpha is 0, keeps the background color.
C9_Geometry ==
    spc = "done" =>
        LET side == IF sfn = "create_splash" THEN (4 * sts) \div 10 ELSE 400
            off == (sts - side) \div 2
        IN  /\ sfn = "create_splash_icon" => sts = 1024
            /\ sts = 1024 /\ sfn = "create_splash" => side = 409
            /\ ssmall.side = side
            /\ sbox = <<off, off, off + side, off + side>>
            /\ 0 <= sbox[1] /\ sbox[3] <= sts
            /\ \A p \in SplashPixels(sts) :
                   LET inside == /\ off <= p[1] /\ p[1] < off + side
                                 /\ off <= p[2] /\ p[2] < off + side
                       src == SmallPixel(ssmall.content, p[1] - off, p[2] - off)
                   IN  /\ ~inside => scanvas[p] = Background
                       /\ (inside /\ src[4] = 0) => scanvas[p] = Background
                       /\ (inside /\ src[4] = 255) => scanvas[p] = src

\* the margin right of (and below) the pasted square minus the margin left
\* of (and above) it
MarginDifference == (sts - sbox[3]) - sbox[1]

\* C9 as stated: the above, and the margins on opposite sides are equal.
C9_MarginsEqual ==
    /\ C9_Geometry
    /\ spc = "done" => MarginDifference = 0

\* C9 as amended: the above, and the margins on opposite sides differ by at
\* most one pixel, the right and bottom margins being the larger ones; they
\* are equal in the synthesizer (312 and 312) and differ in the
\* post-processor at 1024 (307 and 308).
C9_MarginsWithinOne ==
    /\ C9_Geometry
    /\ spc = "done" =>
            /\ MarginDifference \in {0, 1}
            /\ sfn = "create_splash_icon" => sbox = <<312, 312, 712, 712>>
            /\ (sfn = "create_splash" /\ sts = 1024) =>
                    sbox = <<307, 307, 716, 716>> /\ MarginDifference = 1

C9_Witness ==
    /\ spc = "done"
    /\ sfn = "create_splash"
    /\ sts = 1024
    /\ sbox = <<307, 307, 716, 716>>
    /\ \E p \in SplashPixels(sts) :
           /\ 307 <= p[1] /\ p[1] < 716 /\ 307 <= p[2] /\ p[2] < 716
           /\ scanvas[p] = Background
           /\ SmallPixel(ssmall.content, p[1] - 307, p[2] - 307)[4] = 0
    /\ \E p \in SplashPixels(sts) : scanvas[p] = IconPixelValues[3]


(***************************************************************************)
(* SpecIcon: create_icon (generate_icon.py, lines 15-125) on pixels, one   *)
(* action per drawing statement.  The loops of the gradient and of the     *)
(* glow, which SpecGradient and SpecGlow take step by step, are one action *)
(* each here.  The letter is drawn in whatever font was resolved: its      *)
(* shape is one of a family of coverage patterns.                          *)
(***************************************************************************)
corner_radius == 224
shadow_offset == 6

\* Whether rounded_rectangle(box, radius) fills p: inside the box, and in
\* the square of a corner only inside the corner's circle
InRoundedRect(p, box, radius) ==
    LET d == 2 * radius
        cl == p[1] < box[1] + radius
        cr == p[1] > box[3] - radius
        ct == p[2] < box[2] + radius
        cb == p[2] > box[4] - radius
    IN  /\ box[1] <= p[1] /\ p[1] <= box[3]
        /\ box[2] <= p[2] /\ p[2] <= box[4]
        /\ (cl /\ ct) => InEllipse(p, <<box[1], box[2], box[1] + d, box[2] + d>>)
        /\ (cr /\ ct) => InEllipse(p, <<box[3] - d, box[2], box[3], box[2] + d>>)
        /\ (cl /\ cb) => InEllipse(p, <<box[1], box[4] - d, box[1] + d, box[4]>>)
        /\ (cr /\ cb) => InEllipse(p, <<box[3] - d, box[4] - d, box[3], box[4]>>)

\* img.putalpha(mask) keeping the lower of the two alphas
PutAlphaMin(im, mask) ==
    [p \in DOMAIN im |->
        <<im[p][1], im[p][2], im[p][3], Min(im[p][4], mask[p])>>]

\* img.putalpha(mask): the alpha channel is replaced by the mask
PutAlpha(im, mask) ==
    [p \in DOMAIN im |-> <<im[p][1], im[p][2], im[p][3], mask[p]>>]

\* Pillow's division by 255 by shifts
ShiftForDiv255(a) == ((a \div 256) + a) \div 256

\* one pixel of Image.alpha_composite(dst, src): src over dst
CompositePixel(dst, src) ==
    IF src[4] = 0 THEN dst
    ELSE LET blend == dst[4] * (255 - src[4])
             outa255 == src[4] * 255 + blend
             coef1 == (src[4] * 255 * 255 * 128) \div outa255
             coef2 == 255 * 128 - coef1
             Ch(i) == ShiftForDiv255(src[i] * coef1 + dst[i] * coef2 + 128 * 128)
                          \div 128
         IN  <<Ch(1), Ch(2), Ch(3), ShiftForDiv255(outa255 + 128)>>

AlphaComposite(dst, src) ==
    [p \in DOMAIN dst |-> CompositePixel(dst[p], src[p])]

\* the glow layer after the loop of lines 56-61: each pixel has the fill
\* of the last circle drawn over it
GlowLayer(pixels) ==
    [p \in pixels |->
        LET over == {i \in 1..Len(GlowRadii) :
                        InEllipse(p, <<center_x - GlowRadii[i],
                                       center_y - GlowRadii[i],
                                       center_x + GlowRadii[i],
                                       center_y + GlowRadii[i]>>)}
        IN  IF over = {} THEN <<0, 0, 0, 0>>
            ELSE LET last == CHOOSE i \in over : \A j \in over : j <= i
                 IN  <<255, 255, 255, GlowAlpha(GlowRadii[last])>>]

\* the shapes a letter can have: how much of the pixel (x, y), relative to
\* the place the text is drawn at, the letter covers
GlyphShapes == (0..3) \X (0..3) \X (0..3)
CoverLevels == <<0, 64, 128, 255>>
Coverage(g, x, y) == CoverLevels[1 + ((g[1] * x + g[2] * y + g[3]) % 4)]

\* draw.text(at, letter, fill, font) on an RGBA canvas: every channel,
\* alpha too, is blended with the fill under the letter's coverage; off is
\* the offset of this drawing of the letter
DrawText(im, g, off, fill) ==
    [p \in DOMAIN im |->
        [ch \in 1..4 |->
            Blend8(im[p][ch], fill[ch], Coverage(g, p[1] - off, p[2] - off))]]

\* the pixels of the canvas the model holds
IconMarks ==
    {<<0, 0>>, <<SIZE - 1, 0>>, <<0, SIZE - 1>>, <<SIZE - 1, SIZE - 1>>,
     <<SIZE \div 2, SIZE \div 2>>, <<center_x, center_y>>,
     <<30, 30>>, <<SIZE - 31, 30>>, <<100, 100>>, <<0, SIZE \div 2>>}
IconPixels ==
    LET at == {(i * (SIZE - 1)) \div IconGrid : i \in 0..IconGrid}
    IN  (at \X at) \cup IconMarks

\* lines 16 and 29-35: the canvas and the mask
I_New ==
    /\ ipc = "new"
    /\ iimg' = [p \in IconPixels |-> <<0, 0, 0, 0>>]
    /\ imask' = [p \in IconPixels |->
                    IF InRoundedRect(p, <<0, 0, SIZE - 1, SIZE - 1>>, corner_radius)
                    THEN 255 ELSE 0]
    /\ ipc' = "gradient"
    /\ UNCHANGED <<iglow, iglyph>>
    /\ UNCHANGED notIcon

\* lines 38-46: the rows of the gradient
I_Gradient ==
    /\ ipc = "gradient"
    /\ iimg' = [p \in IconPixels |-> RowColor(p[2]) \o <<255>>]
    /\ ipc' = "mask1"
    /\ UNCHANGED <<imask, iglow, iglyph>>
    /\ UNCHANGED notIcon

\* line 49
I_Mask1 ==
    /\ ipc = "mask1"
    /\ iimg' = PutAlpha(iimg, imask)
    /\ ipc' = "glow"
    /\ UNCHANGED <<imask, iglow, iglyph>>
    /\ UNCHANGED notIcon

\* lines 52-61
I_Glow ==
    /\ ipc = "glow"
    /\ iglow' = GlowLayer(IconPixels)
    /\ ipc' = "composite"
    /\ UNCHANGED <<iimg, imask, iglyph>>
    /\ UNCHANGED notIcon

\* line 62
I_Composite ==
    /\ ipc = "composite"
    /\ iimg' = AlphaComposite(iimg, iglow)
    /\ ipc' = "mask2"
    /\ UNCHANGED <<imask, iglow, iglyph>>
    /\ UNCHANGED notIcon

\* line 65
I_Mask2 ==
    /\ ipc = "mask2"
    /\ iimg' = PutAlpha(iimg, imask)
    /\ ipc' = "shadow"
    /\ UNCHANGED <<imask, iglow, iglyph>>
    /\ UNCHANGED notIcon

\* lines 68-112: the font is resolved, the letter placed, its shadow drawn
I_Shadow ==
    /\ ipc = "shadow"
    /\ \E g \in GlyphShapes :
           /\ iglyph' = g
           /\ iimg' = DrawText(iimg, g, shadow_offset, <<0, 0, 0, 35>>)
    /\ ipc' = "letter"
    /\ UNCHANGED <<imask, iglow>>
    /\ UNCHANGED notIcon

\* lines 115-120
I_Letter ==
    /\ ipc = "letter"
    /\ iimg' = DrawText(iimg, iglyph, 0, <<255, 255, 255, 245>>)
    /\ ipc' = "mask3"
    /\ UNCHANGED <<imask, iglow, iglyph>>
    /\ UNCHANGED notIcon

\* lines 123-125
I_Mask3 ==
    /\ ipc = "mask3"
    /\ iimg' = PutAlpha(iimg, imask)
    /\ ipc' = "done"
    /\ UNCHANGED <<imask, iglow, iglyph>>
    /\ UNCHANGED notIcon

InitIcon ==
    /\ MainIdle
    /\ CropIdle
    /\ FontIdle
    /\ GradIdle
    /\ GlowIdle
    /\ SplashIdle
    /\ ipc = "new"
    /\ iimg = <<>>
    /\ imask = <<>>
    /\ iglow = <<>>
    /\ iglyph = <<0, 0, 0>>

NextIcon ==
    \/ I_New \/ I_Gradient \/ I_Mask1 \/ I_Glow \/ I_Composite \/ I_Mask2
    \/ I_Shadow \/ I_Letter \/ I_Mask3

SpecIcon == InitIcon /\ [][NextIcon]_vars

\* Whether the pixel p is in the silhouette: the square 0..1023 with its
\* corners rounded by circles of radius 224 about (224, 224), (799, 224),
\* (224, 799) and (799, 799)
InSilhouette(p) ==
    LET Far(cx, cy) ==
            (p[1] - cx) * (p[1] - cx) + (p[2] - cy) * (p[2] - cy) > 224 * 224
    IN  ~ \/ p[1] < 224 /\ p[2] < 224 /\ Far(224, 224)
          \/ p[1] > 799 /\ p[2] < 224 /\ Far(799, 224)
          \/ p[1] < 224 /\ p[2] > 799 /\ Far(224, 799)
          \/ p[1] > 799 /\ p[2] > 799 /\ Far(799, 799)

\* C10: in the icon create_icon returns, and after each of the three
\* applications of the mask (after the gradient, after the glow composite
\* and last), the alpha of every pixel is the mask's value there: 255
\* inside the rounded silhouette and 0 outside it, 0 at the four corner
\* pixels and 255 at the center, whatever the compositing and the drawing
\* of the shadow and of the letter did to the alpha before.
C10_AlphaIsMask ==
    ipc \in {"glow", "composite", "shadow", "done"} =>
        /\ \A p \in IconPixels :
               /\ iimg[p][4] = imask[p]
               /\ imask[p] = IF InSilhouette(p) THEN 255 ELSE 0
        /\ \A p \in {<<0, 0>>, <<1023, 0>>, <<0, 1023>>, <<1023, 1023>>} :
               iimg[p][4] = 0
        /\ iimg[<<512, 512>>][4] = 255

\* the icon is returned, after a glow over the center and a letter that
\* covered the corner pixel (0, 0), outside the silhouette, and the center
\* pixel, inside it: the letter's white is in both, its alpha in neither
C10_Witness ==
    /\ ipc = "done"
    /\ Coverage(iglyph, 0, 0) = 255
    /\ Coverage(iglyph, SIZE \div 2, SIZE \div 2) = 255
    /\ iglow[<<512, 512>>][4] > 0
    /\ iimg[<<0, 0>>] = <<255, 255, 255, 0>>
    /\ iimg[<<512, 512>>] = <<255, 255, 255, 255>>

====
